---- MODULE Spec2Model ----
(***************************************************************************)
(* A model of modal-go/app.go: AppLookup, App.CreateSandbox and the three  *)
(* App.ImageFrom... entry points.  Every call is synchronous, so an action *)
(* is one whole call; the variable "call" records the last completed call  *)
(* (its arguments, the RPC requests it sent and what it returned), and     *)
(* "apps" is the set of apps that exist on the remote platform.            *)
(***************************************************************************)
EXTENDS Integers, Sequences, FiniteSets, TLC

VARIABLES apps, call

vars == <<apps, call>>

(***************************************************************************)
(* Bounds of the model.                                                    *)
(***************************************************************************)
\* Most ports that EncryptedPorts, H2Ports and UnencryptedPorts hold between
\* them.
MaxPorts == 4
\* Largest number of entries of a Volumes mapping that is tried.
MaxVolumes == 2
\* CPU requests are tried in steps of 1/CpuDenom core, from 0 to MaxCpuSteps steps.
MaxCpuSteps == 9

(***************************************************************************)
(* Values.  A nil pointer is the record Nil; no other record has the field *)
(* "nil".                                                                  *)
(***************************************************************************)
Nil == [nil |-> TRUE]

\* A uint32 is kept as its two 16-bit halves, so that values of 2^31 and more
\* (a negative int converted to uint32) stay within TLC's 32-bit integers.
Half == 2^16

\* Go's integer conversion uint32(n) of an int n: n modulo 2^32.
Uint32(n) == [hi |-> (n \div Half) % Half, lo |-> n % Half]

\* Go's conversion uint32(f) of a float64 f whose truncation toward zero is
\* the integer t: t when t is representable; otherwise the result is
\* implementation-specific (the low 32 bits of the int64 conversion on amd64,
\* saturation at 0 on arm64), so every such outcome is possible.
Uint32OfFloat(t) == IF t >= 0 THEN {Uint32(t)} ELSE {Uint32(t), Uint32(0)}

(***************************************************************************)
(* The remote platform and the transport (not part of app.go).             *)
(***************************************************************************)
AppNames == {"web", "job"}

\* Environments that exist on the platform; DefaultEnvironment is the one the
\* client profile names.
Environments == {"main", "dev"}

DefaultEnvironment == "main"

\* Values of LookupOptions.Environment that are tried: unset, an existing
\* environment, a missing one.
EnvironmentInputs == {"", "dev", "ghost"}

Contexts == {"live", "canceled", "expired"}

\* gRPC status codes a failed call can carry, and an error that carries no
\* gRPC status at all.
FaultCodes == {"Unavailable", "PermissionDenied", "Internal"}

StatusErr(code) == [grpc |-> TRUE, code |-> code]

PlainErr == [grpc |-> FALSE, code |-> "io"]

Faults == {StatusErr(c) : c \in FaultCodes} \cup {PlainErr}

\* status.FromError(err): the status and whether err carries one.
FromError(err) ==
    IF err = Nil THEN [code |-> "OK", ok |-> TRUE]
    ELSE IF err.grpc THEN [code |-> err.code, ok |-> TRUE]
    ELSE [code |-> "Unknown", ok |-> FALSE]

\* The error the transport returns for a context that is already done.
CtxErr(ctx) ==
    IF ctx = "canceled" THEN StatusErr("Canceled") ELSE StatusErr("DeadlineExceeded")

\* clientContext(ctx): the caller's context enriched with client metadata.
clientContext(ctx) == [base |-> ctx, meta |-> TRUE]

\* environmentName(e): the given environment, or the profile's default.
environmentName(e) == IF e = "" THEN DefaultEnvironment ELSE e

\* The identifier the platform assigns to app `name` of environment `env`.
AppIdOf(name, env) == <<"ap", name, env>>

\* The platform's answer to AppGetOrCreate: [resp, err, apps].
AppGetOrCreate(req, existing) ==
    LET key == <<req.AppName, req.EnvironmentName>>
        ok  == [resp |-> [AppId |-> AppIdOf(req.AppName, req.EnvironmentName)],
                err |-> Nil]
    IN  IF req.EnvironmentName \notin Environments
        THEN [resp |-> Nil, err |-> StatusErr("NotFound"), apps |-> existing]
        ELSE IF key \in existing
        THEN ok @@ [apps |-> existing]
        ELSE IF req.ObjectCreationType = "CREATE_IF_MISSING"
        THEN ok @@ [apps |-> existing \cup {key}]
        ELSE [resp |-> Nil, err |-> StatusErr("NotFound"), apps |-> existing]

(***************************************************************************)
(* AppLookup                                                               *)
(***************************************************************************)
LookupOptionsSet ==
    {Nil} \cup [Environment : EnvironmentInputs, CreateIfMissing : BOOLEAN]

NotFoundError(name) == [grpc |-> FALSE, code |-> "NotFoundError",
                        msg |-> <<"app '", name, "' not found">>]

\* A faulty creationType: creation is requested whatever the options say.
creationTypeMutAlwaysCreate(options) == "CREATE_IF_MISSING"

\* Lines 63-66.
creationType(options) ==
    IF options.CreateIfMissing THEN "CREATE_IF_MISSING" ELSE "UNSPECIFIED"

\* A faulty LookupResult: every RPC error is turned into a NotFoundError.
LookupResultMutWrapAll(name, ctx, resp, err) ==
    IF err # Nil
    THEN [ret |-> Nil, err |-> NotFoundError(name)]
    ELSE [ret |-> [AppId |-> resp.AppId, ctx |-> ctx], err |-> Nil]

\* Lines 74-81: what AppLookup returns for the RPC's (resp, err).
LookupResult(name, ctx, resp, err) ==
    IF FromError(err).ok /\ FromError(err).code = "NotFound"
    THEN [ret |-> Nil, err |-> NotFoundError(name)]
    ELSE IF err # Nil
    THEN [ret |-> Nil, err |-> err]
    ELSE [ret |-> [AppId |-> resp.AppId, ctx |-> ctx], err |-> Nil]

\* clientOk: whether clientContext succeeds; fault: Nil, or the error the
\* transport returns instead of the platform's answer.
AppLookup(ctx, name, options, clientOk, fault) ==
    LET opts == IF options = Nil
                THEN [Environment |-> "", CreateIfMissing |-> FALSE]
                ELSE options
        base == [op |-> "AppLookup", name |-> name, options |-> options,
                 ctx |-> ctx,
                 existed |-> <<name, environmentName(opts.Environment)>> \in apps]
    IN  IF ~clientOk
        THEN /\ call' = base @@ [rpcs |-> <<>>, rpcResp |-> Nil, rpcErr |-> Nil,
                                 answered |-> FALSE,
                                 ret |-> Nil, err |-> PlainErr]
             /\ UNCHANGED apps
        ELSE
        LET cctx == clientContext(ctx)
            req  == [AppName |-> name,
                     EnvironmentName |-> environmentName(opts.Environment),
                     ObjectCreationType |-> creationType(opts)]
            ans  == AppGetOrCreate(req, apps)
            out  == IF ctx # "live"
                    THEN [resp |-> Nil, err |-> CtxErr(ctx), apps |-> apps]
                    ELSE IF fault # Nil
                    THEN [resp |-> Nil, err |-> fault, apps |-> apps]
                    ELSE ans
            res  == LookupResult(name, cctx, out.resp, out.err)
        IN  /\ call' = base @@ [rpcs |-> <<req>>, rpcResp |-> out.resp,
                                rpcErr |-> out.err,
                                answered |-> (ctx = "live" /\ fault = Nil),
                                ret |-> res.ret, err |-> res.err]
            /\ apps' = out.apps

DoAppLookup ==
    \E ctx \in Contexts, name \in AppNames, options \in LookupOptionsSet,
       clientOk \in BOOLEAN, fault \in {Nil} \cup Faults :
        AppLookup(ctx, name, options, clientOk, fault)

(***************************************************************************)
(* App.CreateSandbox                                                       *)
(***************************************************************************)
\* time.Second in nanoseconds.
Second == 10^9

\* Bits of precision of a float64.
Float64Precision == 53

RECURSIVE Log2(_)
Log2(n) == IF n < 2 THEN 0 ELSE 1 + Log2(n \div 2)

\* A time.Duration d is kept as its sign and the magnitudes of d / Second and
\* d % Second, the two parts Duration.Seconds() computes with.
\* Duration.Seconds() returns float64(sec) + float64(nsec)/1e9.  The sum is
\* rounded to a float64: from 2^24 s on, a remainder within half a unit in
\* the last place of the next whole second is rounded up to it.
SecondsRoundsUp(sec, nsec) ==
    LET k == Log2(sec)
    IN  /\ sec >= 1
        /\ nsec > 0
        /\ Float64Precision - k <= 30
        /\ Second - nsec <= Second \div 2^(Float64Precision - k)

\* A faulty TruncSeconds: the seconds are rounded to the nearest whole second.
TruncSecondsMutRound(d) ==
    LET m == IF 2 * d.nsec >= Second THEN d.sec + 1 ELSE d.sec
    IN  IF d.neg THEN -m ELSE m

\* The truncation toward zero of d.Seconds().
TruncSeconds(d) ==
    LET m == IF SecondsRoundsUp(d.sec, d.nsec) THEN d.sec + 1 ELSE d.sec
    IN  IF d.neg THEN -m ELSE m

\* A CPU request is n/CpuDenom cores: a float64 whose product with 1000 is
\* exact.
CpuDenom == 2^4

\* A faulty TruncMilliCpu: the milli-cores are rounded up.
TruncMilliCpuMutCeil(n) == (1000 * n + CpuDenom - 1) \div CpuDenom

\* The truncation toward zero of 1000 * CPU.
TruncMilliCpu(n) ==
    IF n >= 0 THEN (1000 * n) \div CpuDenom ELSE -((1000 * (-n)) \div CpuDenom)

\* The PortSpecs one of the three loops of lines 104-122 appends.
PortSpecsOf(ports, unencrypted, tunnelType) ==
    [i \in 1..Len(ports) |->
        [Port |-> Uint32(ports[i]), Unencrypted |-> unencrypted,
         TunnelType |-> tunnelType]]

\* A faulty openPorts: the unencrypted ports are appended first.
openPortsMutUnencryptedFirst(options) ==
    PortSpecsOf(options.UnencryptedPorts, TRUE, "UNSET")
    \o PortSpecsOf(options.EncryptedPorts, FALSE, "UNSET")
    \o PortSpecsOf(options.H2Ports, FALSE, "TUNNEL_TYPE_H2")

\* Lines 103-122.
openPorts(options) ==
    PortSpecsOf(options.EncryptedPorts, FALSE, "UNSET")
    \o PortSpecsOf(options.H2Ports, FALSE, "TUNNEL_TYPE_H2")
    \o PortSpecsOf(options.UnencryptedPorts, TRUE, "UNSET")

\* A faulty portSpecs: the collection is built even when it is empty.
portSpecsMutAlwaysPresent(ports) == [Ports |-> ports]

\* Lines 124-129.
portSpecs(ports) == IF Len(ports) > 0 THEN [Ports |-> ports] ELSE Nil

\* The orders in which "range" can visit the keys of a map.
RangeOrders(m) ==
    IF m = Nil THEN {<<>>}
    ELSE {o \in [1..Cardinality(DOMAIN m) -> DOMAIN m] :
            \A i, j \in DOMAIN o : i # j => o[i] # o[j]}

\* A faulty volumeMounts: the mounts are read-only.
volumeMountsMutReadOnly(volumes, order) ==
    [i \in 1..Len(order) |->
        [VolumeId |-> volumes[order[i]].VolumeId, MountPath |-> order[i],
         AllowBackgroundCommits |-> TRUE, ReadOnly |-> TRUE]]

\* Lines 90-101: the mounts, in the order the map was visited.
volumeMounts(volumes, order) ==
    [i \in 1..Len(order) |->
        [VolumeId |-> volumes[order[i]].VolumeId, MountPath |-> order[i],
         AllowBackgroundCommits |-> TRUE, ReadOnly |-> FALSE]]

\* newSandbox(ctx, sandboxId)
newSandbox(ctx, sandboxId) == [SandboxId |-> sandboxId, ctx |-> ctx]

\* &SandboxOptions{}
ZeroDuration == [neg |-> FALSE, sec |-> 0, nsec |-> 0]

DefaultOptions ==
    [CPU |-> 0, Memory |-> 0, Timeout |-> ZeroDuration, Command |-> <<>>,
     Volumes |-> Nil, EncryptedPorts |-> <<>>, H2Ports |-> <<>>,
     UnencryptedPorts |-> <<>>]

\* Lines 149-153: what CreateSandbox returns for the RPC's (resp, err).
SandboxResult(ctx, resp, err) ==
    IF err # Nil
    THEN [ret |-> Nil, err |-> err]
    ELSE [ret |-> newSandbox(ctx, resp.SandboxId), err |-> Nil]

\* fault: Nil, or the error the transport returns; sandboxId: the identifier
\* the platform assigns when it accepts the definition.
CreateSandbox(app, image, options, fault, sandboxId) ==
    LET opts == IF options = Nil THEN DefaultOptions ELSE options
    IN  \E order \in RangeOrders(opts.Volumes),
           timeoutSecs \in Uint32OfFloat(TruncSeconds(opts.Timeout)),
           milliCpu \in Uint32OfFloat(TruncMilliCpu(opts.CPU)) :
        LET req == [AppId |-> app.AppId,
                    Definition |->
                      [EntrypointArgs |-> opts.Command,
                       ImageId |-> image.ImageId,
                       TimeoutSecs |-> timeoutSecs,
                       NetworkAccess |-> [NetworkAccessType |-> "OPEN"],
                       Resources |-> [MilliCpu |-> milliCpu,
                                      MemoryMb |-> Uint32(opts.Memory)],
                       VolumeMounts |-> volumeMounts(opts.Volumes, order),
                       OpenPorts |-> portSpecs(openPorts(opts))]]
            out == IF app.ctx.base # "live"
                   THEN [resp |-> Nil, err |-> CtxErr(app.ctx.base)]
                   ELSE IF fault # Nil
                   THEN [resp |-> Nil, err |-> fault]
                   ELSE [resp |-> [SandboxId |-> sandboxId], err |-> Nil]
            res == SandboxResult(app.ctx, out.resp, out.err)
        IN  /\ call' = [op |-> "CreateSandbox", app |-> app, image |-> image,
                        options |-> options, rpcs |-> <<req>>,
                        rpcResp |-> out.resp, rpcErr |-> out.err, ret |-> res.ret, err |-> res.err]
            /\ UNCHANGED apps

(***************************************************************************)
(* App.ImageFromRegistry, App.ImageFromAwsEcr,                             *)
(* App.ImageFromGcpArtifactRegistry                                        *)
(***************************************************************************)
\* pb.ImageRegistryConfig_builder{RegistryAuthType, SecretId}.Build()
ImageRegistryConfig(authType, secret) ==
    [RegistryAuthType |-> authType, SecretId |-> secret.SecretId]

\* The identifier the platform assigns to the image built from `tag`.
ImageIdOf(tag) == <<"im", tag>>

\* fromRegistryInternal(app, tag, imageRegistryConfig): sends the image
\* request and wraps the identifier it gets back.
fromRegistryInternal(op, input, app, tag, imageRegistryConfig, fault) ==
    LET req == [AppId |-> app.AppId, Tag |-> tag,
                ImageRegistryConfig |-> imageRegistryConfig]
        err == IF app.ctx.base # "live" THEN CtxErr(app.ctx.base) ELSE fault
    IN  /\ call' = [op |-> op, app |-> app, tag |-> tag, input |-> input,
                    panicked |-> FALSE, rpcs |-> <<req>>, rpcErr |-> err,
                    ret |-> IF err = Nil THEN [ImageId |-> ImageIdOf(tag)] ELSE Nil,
                    err |-> err]
        /\ UNCHANGED apps

\* A nil pointer dereference: the call panics before any request is sent.
Panic(op, input, app, tag) ==
    /\ call' = [op |-> op, app |-> app, tag |-> tag, input |-> input,
                panicked |-> TRUE, rpcs |-> <<>>, rpcErr |-> Nil, ret |-> Nil,
                err |-> Nil]
    /\ UNCHANGED apps

\* A faulty registryConfig: the auth type of ImageFromAwsEcr is used.
registryConfigMutAws(options) ==
    IF options.Secret # Nil
    THEN ImageRegistryConfig("REGISTRY_AUTH_TYPE_AWS", options.Secret)
    ELSE Nil

\* Lines 161-167.
registryConfig(options) ==
    IF options.Secret # Nil
    THEN ImageRegistryConfig("REGISTRY_AUTH_TYPE_STATIC_CREDS", options.Secret)
    ELSE Nil

ImageFromRegistry(app, tag, options, fault) ==
    LET opts == IF options = Nil THEN [Secret |-> Nil] ELSE options
    IN  fromRegistryInternal("ImageFromRegistry", options, app, tag,
                             registryConfig(opts), fault)

ImageFromAwsEcr(app, tag, secret, fault) ==
    IF secret = Nil
    THEN Panic("ImageFromAwsEcr", secret, app, tag)
    ELSE fromRegistryInternal("ImageFromAwsEcr", secret, app, tag,
            ImageRegistryConfig("REGISTRY_AUTH_TYPE_AWS", secret), fault)

ImageFromGcpArtifactRegistry(app, tag, secret, fault) ==
    IF secret = Nil
    THEN Panic("ImageFromGcpArtifactRegistry", secret, app, tag)
    ELSE fromRegistryInternal("ImageFromGcpArtifactRegistry", secret, app, tag,
            ImageRegistryConfig("REGISTRY_AUTH_TYPE_GCP", secret), fault)

(***************************************************************************)
(* Inputs                                                                  *)
(***************************************************************************)
\* The App handles a program can hold: AppLookup returned them, so the app
\* exists on the platform; the context is the one given to AppLookup.
AppHandles ==
    {[AppId |-> AppIdOf(k[1], k[2]), ctx |-> clientContext(c)] :
        k \in apps, c \in Contexts}

LiveHandles == {a \in AppHandles : a.ctx.base = "live"}

Images == {[ImageId |-> ImageIdOf("alpine:3")], [ImageId |-> ImageIdOf("ecr/img:1")]}

OneImage == {[ImageId |-> ImageIdOf("alpine:3")]}

Tags == {"alpine:3", "ecr/img:1"}

Secrets == {[SecretId |-> "st-1"], [SecretId |-> "st-2"]}

SandboxIds == {"sb-1", "sb-2"}

VolumeSet == {[VolumeId |-> "vo-1"], [VolumeId |-> "vo-2"]}

MountPaths == {"/a", "/b", "/c"}

SeqsUpTo(S, n) == UNION {[1..k -> S] : k \in 0..n}

\* Port numbers that are tried: a valid one, and one no uint32 can hold.
PortInputs == {80, -1}

\* All three port lists with at most MaxPorts ports between them.
PortOptions ==
    {Nil} \cup
    {[DefaultOptions EXCEPT !.EncryptedPorts = e, !.H2Ports = h,
                            !.UnencryptedPorts = u] :
        <<e, h, u>> \in {t \in SeqsUpTo(PortInputs, MaxPorts)
                                \X SeqsUpTo(PortInputs, MaxPorts)
                                \X SeqsUpTo(PortInputs, MaxPorts) :
                            Len(t[1]) + Len(t[2]) + Len(t[3]) <= MaxPorts}}

VolumeMaps ==
    UNION {[P -> VolumeSet] : P \in {Q \in SUBSET MountPaths : Cardinality(Q) <= MaxVolumes}}

VolumeOptions ==
    {DefaultOptions} \cup {[DefaultOptions EXCEPT !.Volumes = m] : m \in VolumeMaps}

TimeoutInputs ==
    {d \in [neg : BOOLEAN, sec : {0, 1, 90, 2^24 - 1, 2^24, 2^30},
            nsec : {0, 700000000, 900000000, 999999999}] :
        d.neg => (d.sec > 0 \/ d.nsec > 0)}

TimeoutOptions == {[DefaultOptions EXCEPT !.Timeout = d] : d \in TimeoutInputs}

MemoryInputs == {-1, 0, 512, 2^16 + 1}

ResourceOptions ==
    {[DefaultOptions EXCEPT !.CPU = c, !.Memory = m] :
        c \in -1..MaxCpuSteps, m \in MemoryInputs}

CoreOptions ==
    {Nil, [DefaultOptions EXCEPT !.Command = <<"echo", "hi">>,
                                 !.EncryptedPorts = <<443>>]}

(***************************************************************************)
(* Specifications                                                          *)
(***************************************************************************)
DoCreateSandbox(handles, images, optionSet, faults) ==
    \E app \in handles, image \in images, options \in optionSet,
       fault \in {Nil} \cup faults, sandboxId \in SandboxIds :
        CreateSandbox(app, image, options, fault, sandboxId)

DoImageFromRegistry ==
    \E app \in AppHandles, tag \in Tags, fault \in {Nil} \cup Faults,
       options \in {Nil} \cup [Secret : {Nil} \cup Secrets] :
        ImageFromRegistry(app, tag, options, fault)

DoImageFromAwsEcr ==
    \E app \in AppHandles, tag \in Tags, fault \in {Nil} \cup Faults,
       secret \in {Nil} \cup Secrets :
        ImageFromAwsEcr(app, tag, secret, fault)

DoImageFromGcpArtifactRegistry ==
    \E app \in AppHandles, tag \in Tags, fault \in {Nil} \cup Faults,
       secret \in {Nil} \cup Secrets :
        ImageFromGcpArtifactRegistry(app, tag, secret, fault)

NoCall == [op |-> "none"]

\* No call has been made and the platform holds no app.
Init == apps = {} /\ call = NoCall

\* No call has been made and app "web" is deployed in the default environment.
InitDeployed == apps = {<<"web", DefaultEnvironment>>} /\ call = NoCall

Next ==
    \/ DoAppLookup
    \/ DoCreateSandbox(AppHandles, Images, CoreOptions, Faults)

Spec == Init /\ [][Next]_vars

NextImages ==
    \/ DoImageFromRegistry
    \/ DoImageFromAwsEcr
    \/ DoImageFromGcpArtifactRegistry

SpecImages == InitDeployed /\ [][NextImages]_vars

NextPorts == DoCreateSandbox(LiveHandles, OneImage, PortOptions, {})

SpecPorts == InitDeployed /\ [][NextPorts]_vars

NextVolumes == DoCreateSandbox(LiveHandles, Images, VolumeOptions, {PlainErr})

SpecVolumes == InitDeployed /\ [][NextVolumes]_vars

NextTimeout == DoCreateSandbox(LiveHandles, OneImage, TimeoutOptions, {PlainErr})

SpecTimeout == InitDeployed /\ [][NextTimeout]_vars

NextResources == DoCreateSandbox(LiveHandles, OneImage, ResourceOptions, {PlainErr})

SpecResources == InitDeployed /\ [][NextResources]_vars

(***************************************************************************)
(* Properties                                                              *)
(***************************************************************************)
\* The uint32 u holds the number n.
IsNumber(u, n) == n >= 0 /\ u = [hi |-> n \div Half, lo |-> n % Half]

\* The uint32 u holds n modulo 2^32: n itself, or 2^32 + n for a negative n
\* (the complement of -n - 1).
IsNumberMod(u, n) ==
    IF n >= 0 THEN IsNumber(u, n)
    ELSE u = [hi |-> Half - 1 - ((-n - 1) \div Half),
              lo |-> Half - 1 - ((-n - 1) % Half)]

\* The options a call works with: the zero value for a nil pointer.
GivenLookupOptions ==
    IF call.options = Nil THEN [Environment |-> "", CreateIfMissing |-> FALSE]
    ELSE call.options

GivenSandboxOptions == IF call.options = Nil THEN DefaultOptions ELSE call.options

SentDefinition == call.rpcs[1].Definition

\* The platform answered an AppLookup for an app that did not exist in an
\* environment that does.
LookupOfMissingApp ==
    /\ call.op = "AppLookup"
    /\ call.answered
    /\ ~call.existed
    /\ environmentName(GivenLookupOptions.Environment) \in Environments

\* C1: AppLookup for an app that does not exist in the given environment
\* returns no App and a NotFoundError whose message contains the name when
\* CreateIfMissing is false or options is nil; when CreateIfMissing is true
\* it sends CREATE_IF_MISSING, the app is created, and it returns an App
\* carrying the returned identifier and a nil error.
C1_LookupMissingApp ==
    LookupOfMissingApp =>
        LET key == <<call.name, environmentName(GivenLookupOptions.Environment)>>
        IN  IF GivenLookupOptions.CreateIfMissing
            THEN /\ call.rpcs[1].ObjectCreationType = "CREATE_IF_MISSING"
                 /\ key \in apps
                 /\ call.ret # Nil
                 /\ call.ret.AppId = call.rpcResp.AppId
                 /\ call.err = Nil
            ELSE /\ call.rpcs[1].ObjectCreationType = "UNSPECIFIED"
                 /\ key \notin apps
                 /\ call.ret = Nil
                 /\ call.err # Nil
                 /\ call.err.code = "NotFoundError"
                 /\ \E i \in DOMAIN call.err.msg : call.err.msg[i] = call.name

C1_Witness ==
    /\ LookupOfMissingApp
    /\ GivenLookupOptions.CreateIfMissing
    /\ call.ret # Nil
    /\ call.ret.AppId = AppIdOf("job", "dev")

\* C2: an AppLookup with CreateIfMissing = true never returns a
\* NotFoundError, whatever the AppGetOrCreate RPC returned.
C2_NoNotFoundWhenCreating ==
    (call.op = "AppLookup" /\ GivenLookupOptions.CreateIfMissing) =>
        (call.err = Nil \/ call.err.code # "NotFoundError")

\* The RPC of the last call failed with an error AppLookup does not translate.
PassThroughCase ==
    /\ call.op \in {"AppLookup", "CreateSandbox"}
    /\ call.rpcErr # Nil
    /\ call.op = "AppLookup" => FromError(call.rpcErr).code # "NotFound"

\* C3: when the RPC of AppLookup fails with a status other than NotFound, or
\* the RPC of CreateSandbox fails at all, the call made exactly one RPC
\* attempt, returns the very error the RPC returned, and returns no handle.
C3_TransportErrorsPassThrough ==
    PassThroughCase =>
        /\ Len(call.rpcs) = 1
        /\ call.err = call.rpcErr
        /\ call.ret = Nil

C3_Witness ==
    /\ PassThroughCase
    /\ call.op = "AppLookup"
    /\ call.rpcErr = StatusErr("DeadlineExceeded")
    /\ call.err = StatusErr("DeadlineExceeded")

\* The ports CreateSandbox sent: none when OpenPorts is absent.
SentPorts ==
    IF SentDefinition.OpenPorts = Nil THEN <<>> ELSE SentDefinition.OpenPorts.Ports

\* The category (<<unencrypted, tunnel type>>) and the input port number of
\* every compiled port, in the order the claim states: EncryptedPorts, then
\* H2Ports, then UnencryptedPorts.
ExpectedPorts ==
    LET o == GivenSandboxOptions
        e == [i \in 1..Len(o.EncryptedPorts) |->
                [n |-> o.EncryptedPorts[i], Unencrypted |-> FALSE,
                 TunnelType |-> "UNSET"]]
        h == [i \in 1..Len(o.H2Ports) |->
                [n |-> o.H2Ports[i], Unencrypted |-> FALSE,
                 TunnelType |-> "TUNNEL_TYPE_H2"]]
        u == [i \in 1..Len(o.UnencryptedPorts) |->
                [n |-> o.UnencryptedPorts[i], Unencrypted |-> TRUE,
                 TunnelType |-> "UNSET"]]
    IN  e \o h \o u

\* C4 as stated: the compiled ports are the specs for EncryptedPorts, then
\* H2Ports, then UnencryptedPorts, each list in input order, each spec with
\* its category's flags and carrying the port number of its input element.
C4_PortsCarryInputNumber ==
    call.op = "CreateSandbox" =>
        /\ Len(SentPorts) = Len(ExpectedPorts)
        /\ \A i \in DOMAIN ExpectedPorts :
            /\ SentPorts[i].Unencrypted = ExpectedPorts[i].Unencrypted
            /\ SentPorts[i].TunnelType = ExpectedPorts[i].TunnelType
            /\ IsNumber(SentPorts[i].Port, ExpectedPorts[i].n)

\* C4, amended: the same order, length and flags, duplicates kept; each spec
\* carries the port number of its input element modulo 2^32, which is the
\* input number itself for every port from 0 up.
C4_PortsInOrder ==
    call.op = "CreateSandbox" =>
        /\ Len(SentPorts) = Len(ExpectedPorts)
        /\ \A i \in DOMAIN ExpectedPorts :
            /\ SentPorts[i].Unencrypted = ExpectedPorts[i].Unencrypted
            /\ SentPorts[i].TunnelType = ExpectedPorts[i].TunnelType
            /\ IsNumberMod(SentPorts[i].Port, ExpectedPorts[i].n)

C4_Witness ==
    /\ call.op = "CreateSandbox"
    /\ call.options # Nil
    /\ call.options.EncryptedPorts = <<80, 80>>
    /\ call.options.H2Ports = <<-1>>
    /\ call.options.UnencryptedPorts = <<80>>
    /\ Len(SentPorts) = 4
    /\ SentPorts[3] = [Port |-> [hi |-> Half - 1, lo |-> Half - 1],
                       Unencrypted |-> FALSE, TunnelType |-> "TUNNEL_TYPE_H2"]

\* C5: the definition CreateSandbox sends has no OpenPorts exactly when
\* EncryptedPorts, H2Ports and UnencryptedPorts are all empty (a nil options
\* included); a present OpenPorts is never empty.
C5_OpenPortsAbsentIffNoPorts ==
    call.op = "CreateSandbox" =>
        LET o == GivenSandboxOptions
        IN  /\ (SentDefinition.OpenPorts = Nil) <=>
                    (o.EncryptedPorts = <<>> /\ o.H2Ports = <<>>
                        /\ o.UnencryptedPorts = <<>>)
            /\ SentDefinition.OpenPorts # Nil =>
                    Len(SentDefinition.OpenPorts.Ports) > 0

C5_Witness ==
    /\ call.op = "CreateSandbox"
    /\ call.options # Nil
    /\ call.options.EncryptedPorts = <<>>
    /\ call.options.H2Ports = <<>>
    /\ call.options.UnencryptedPorts = <<>>
    /\ SentDefinition.OpenPorts = Nil

\* The auth configuration an image call passed to fromRegistryInternal.
SentRegistryConfig == call.rpcs[1].ImageRegistryConfig

\* C6: with a non-nil secret ImageFromAwsEcr passes auth type AWS and
\* ImageFromGcpArtifactRegistry auth type GCP, each with the secret's
\* identifier; ImageFromRegistry passes auth type STATIC_CREDS with the
\* secret's identifier when options.Secret is non-nil, and no auth
\* configuration when options or options.Secret is nil.
C6_RegistryAuth ==
    /\ (call.op = "ImageFromAwsEcr" /\ call.input # Nil) =>
            /\ ~call.panicked
            /\ SentRegistryConfig = [RegistryAuthType |-> "REGISTRY_AUTH_TYPE_AWS",
                                     SecretId |-> call.input.SecretId]
    /\ (call.op = "ImageFromGcpArtifactRegistry" /\ call.input # Nil) =>
            /\ ~call.panicked
            /\ SentRegistryConfig = [RegistryAuthType |-> "REGISTRY_AUTH_TYPE_GCP",
                                     SecretId |-> call.input.SecretId]
    /\ call.op = "ImageFromRegistry" =>
            /\ ~call.panicked
            /\ IF call.input # Nil /\ call.input.Secret # Nil
               THEN SentRegistryConfig =
                        [RegistryAuthType |-> "REGISTRY_AUTH_TYPE_STATIC_CREDS",
                         SecretId |-> call.input.Secret.SecretId]
               ELSE SentRegistryConfig = Nil

C6_Witness ==
    /\ call.op = "ImageFromRegistry"
    /\ call.input = [Secret |-> [SecretId |-> "st-2"]]
    /\ SentRegistryConfig.SecretId = "st-2"
    /\ call.ret # Nil

\* C7: the compiled VolumeMounts hold exactly one mount per entry of the
\* Volumes mapping, with the entry's mount path and volume identifier,
\* AllowBackgroundCommits = true and ReadOnly = false.
C7_OneMountPerVolume ==
    call.op = "CreateSandbox" =>
        LET m  == GivenSandboxOptions.Volumes
            vm == SentDefinition.VolumeMounts
        IN  IF m = Nil THEN vm = <<>>
            ELSE /\ Len(vm) = Cardinality(DOMAIN m)
                 /\ \A path \in DOMAIN m :
                        Cardinality({i \in DOMAIN vm : vm[i].MountPath = path}) = 1
                 /\ \A i \in DOMAIN vm :
                        /\ vm[i].MountPath \in DOMAIN m
                        /\ vm[i].VolumeId = m[vm[i].MountPath].VolumeId
                        /\ vm[i].AllowBackgroundCommits = TRUE
                        /\ vm[i].ReadOnly = FALSE

C7_Witness ==
    /\ call.op = "CreateSandbox"
    /\ call.options # Nil
    /\ call.options.Volumes # Nil
    /\ DOMAIN call.options.Volumes = {"/a", "/c"}
    /\ Len(SentDefinition.VolumeMounts) = 2
    /\ SentDefinition.VolumeMounts[1].MountPath = "/c"

\* floor(d in seconds) of a duration d.
FloorSeconds(d) ==
    IF ~d.neg THEN d.sec ELSE IF d.nsec = 0 THEN -d.sec ELSE -d.sec - 1

\* C8 as stated: for every duration d given as Timeout, TimeoutSecs is
\* floor(d in seconds).
C8_TimeoutIsFloor ==
    call.op = "CreateSandbox" =>
        IsNumber(SentDefinition.TimeoutSecs,
                 FloorSeconds(GivenSandboxOptions.Timeout))

\* C8, amended: for every duration 0 <= d < 2^24 s, TimeoutSecs is
\* floor(d in seconds).  From 2^24 s on it is floor(d) or floor(d) + 1
\* (Seconds() rounds a remainder close to a whole second up), and a
\* negative d above -1 s gives 0, not floor(d) = -1.
C8_TimeoutTruncates ==
    call.op = "CreateSandbox" =>
        LET d  == GivenSandboxOptions.Timeout
            ts == SentDefinition.TimeoutSecs
        IN  /\ (~d.neg /\ d.sec < 2^24) => IsNumber(ts, d.sec)
            /\ (~d.neg /\ d.sec >= 2^24) =>
                    (IsNumber(ts, d.sec) \/ IsNumber(ts, d.sec + 1))
            /\ (d.neg /\ d.sec = 0) => IsNumber(ts, 0)

C8_Witness ==
    /\ call.op = "CreateSandbox"
    /\ call.options # Nil
    /\ call.options.Timeout = [neg |-> FALSE, sec |-> 90, nsec |-> 700000000]
    /\ SentDefinition.TimeoutSecs = [hi |-> 0, lo |-> 90]

\* q = floor(c * 1000) for the CPU request c = n/CpuDenom.
IsFloorMilli(q, n) == q * CpuDenom <= 1000 * n /\ 1000 * n < (q + 1) * CpuDenom

C10_SameInputSameDefinition ==
    [][(/\ call.op = "CreateSandbox"
        /\ call'.op = "CreateSandbox"
        /\ call'.app = call.app
        /\ call'.image = call.image
        /\ call'.options = call.options)
            => call'.rpcs = call.rpcs]_vars

====
